---- MODULE Spec2Model ----
(***************************************************************************)
(* Model of the .tet mesh loader and its derived-geometry pipeline         *)
(* (src/src/ts/loader.ts) together with the part of the renderer that      *)
(* drives it (src/src/ts/render.ts: Render.load, Render.updateTetModel,    *)
(* Render.draw).                                                           *)
(*                                                                         *)
(* Numbers.  A JavaScript number is modelled exactly, as a triple          *)
(* <<n, d, r>> standing for the real  (n / d) * sqrt(r)  with n/d in       *)
(* lowest terms, d > 0 and r square-free (r = 1 for a rational, <<k,1,1>>  *)
(* for the integer k, <<0,1,1>> for zero); d = 0 marks the non-finite      *)
(* values: <<0,0,1>> is NaN and <<1,0,1>>, <<-1,0,1>> are +/-Infinity.     *)
(* The encoding is canonical, so equality of triples is equality of        *)
(* numbers.                                                                *)
(* Arithmetic is that of the reals: the rounding of IEEE doubles and of    *)
(* Float32Array stores is not modelled.  Sums are taken only of operands   *)
(* with the same radical; the input meshes are drawn from a point set      *)
(* (PointList) for which every sum the program takes is of that kind.      *)
(***************************************************************************)
EXTENDS Integers, Sequences, FiniteSets, TLC

(***************************************************************************)
(* Bounds of the model.                                                    *)
(***************************************************************************)
MaxFaces == 2
MaxVerts == 4
MaxWrites == 1

(***************************************************************************)
(* Integer helpers.                                                        *)
(***************************************************************************)
Sgn(k) == IF k > 0 THEN 1 ELSE IF k < 0 THEN -1 ELSE 0

Abs(k) == IF k < 0 THEN -k ELSE k

RECURSIVE GCD(_, _)
GCD(a, b) == IF b = 0 THEN a ELSE GCD(b, a % b)

\* the largest s, from s on, whose square divides m
RECURSIVE SquarePart(_, _)
SquarePart(m, s) ==
    IF s * s > m THEN 1
    ELSE IF m % (s * s) = 0 THEN s * SquarePart(m \div (s * s), s)
    ELSE SquarePart(m, s + 1)

(***************************************************************************)
(* JavaScript numbers.                                                     *)
(***************************************************************************)
NaN == <<0, 0, 1>>

Inf(s) == <<s, 0, 1>>

Zero == <<0, 1, 1>>

Num(k) == <<k, 1, 1>>

\* (n / d) * sqrt(r) for d > 0 and r square-free, in canonical form
Norm(n, d, r) ==
    IF n = 0 THEN Zero
    ELSE <<n \div GCD(Abs(n), d), d \div GCD(Abs(n), d), r>>

IsNaN(x) == x[2] = 0 /\ x[1] = 0

IsInf(x) == x[2] = 0 /\ x[1] # 0

IsFinite(x) == x[2] > 0

IsRational(x) == x[2] > 0 /\ x[3] = 1

IsInteger(x) == x[2] = 1 /\ x[3] = 1

ToInt(x) == x[1]

\* a number the encoding cannot hold: evaluation stops
Unrepresentable == CHOOSE x \in {} : TRUE

NNeg(x) == <<-x[1], x[2], x[3]>>

NAdd(x, y) ==
    IF IsNaN(x) \/ IsNaN(y) THEN NaN
    ELSE IF IsInf(x) THEN (IF IsInf(y) /\ x[1] # y[1] THEN NaN ELSE x)
    ELSE IF IsInf(y) THEN y
    ELSE IF x = Zero THEN y
    ELSE IF y = Zero THEN x
    ELSE IF x[3] = y[3] THEN Norm(x[1] * y[2] + y[1] * x[2], x[2] * y[2], x[3])
    ELSE Unrepresentable

NSub(x, y) == NAdd(x, NNeg(y))

\* sqrt(r1) * sqrt(r2) = g * sqrt((r1 / g) * (r2 / g)) for g = gcd(r1, r2)
NMul(x, y) ==
    IF IsNaN(x) \/ IsNaN(y) THEN NaN
    ELSE IF IsInf(x) \/ IsInf(y)
         THEN (IF x[1] = 0 \/ y[1] = 0 THEN NaN ELSE Inf(Sgn(x[1]) * Sgn(y[1])))
    ELSE Norm(x[1] * y[1] * GCD(x[3], y[3]), x[2] * y[2],
              (x[3] \div GCD(x[3], y[3])) * (y[3] \div GCD(x[3], y[3])))

\* 1 / y for a finite y other than zero: d / (n sqrt(r)) = d sqrt(r) / (n r)
NInv(y) == Norm(Sgn(y[1]) * y[2], Abs(y[1]) * y[3], y[3])

\* division; a zero divisor is +0 (the program divides by lengths and areas)
NDiv(x, y) ==
    IF IsNaN(x) \/ IsNaN(y) THEN NaN
    ELSE IF IsInf(x) THEN (IF IsInf(y) THEN NaN
                           ELSE Inf(x[1] * (IF y[1] < 0 THEN -1 ELSE 1)))
    ELSE IF IsInf(y) THEN Zero
    ELSE IF y = Zero THEN (IF x = Zero THEN NaN ELSE Inf(Sgn(x[1])))
    ELSE NMul(x, NInv(y))

NSquare(x) == NMul(x, x)

\* Math.sqrt: sqrt(n / d) = sqrt(n d) / d
NSqrt(x) ==
    IF IsNaN(x) \/ x[1] < 0 THEN NaN
    ELSE IF IsInf(x) \/ x = Zero THEN x
    ELSE IF x[3] = 1
         THEN Norm(SquarePart(x[1] * x[2], 2), x[2],
                   (x[1] * x[2]) \div (SquarePart(x[1] * x[2], 2) * SquarePart(x[1] * x[2], 2)))
    ELSE Unrepresentable

\* Math.hypot(x, y, z): Infinity if any argument is infinite, else NaN if any
\* is NaN, else sqrt(x^2 + y^2 + z^2)
Hypot(x, y, z) ==
    IF IsInf(x) \/ IsInf(y) \/ IsInf(z) THEN Inf(1)
    ELSE NSqrt(NAdd(NAdd(NSquare(x), NSquare(y)), NSquare(z)))

\* Heron's formula on the three edge lengths a, b, c:
\*   s = (a + b + c) / 2,  area = sqrt(s (s - a) (s - b) (s - c)).
\* Over the reals the radicand equals
\*   (2 a^2 b^2 + 2 b^2 c^2 + 2 c^2 a^2 - a^4 - b^4 - c^4) / 16,
\* which is evaluated here from the squared lengths (always rational).
HeronRadicand(a2, b2, c2) ==
    NDiv(NSub(NMul(Num(2), NAdd(NAdd(NMul(a2, b2), NMul(b2, c2)), NMul(c2, a2))),
              NAdd(NAdd(NSquare(a2), NSquare(b2)), NSquare(c2))),
         Num(16))

HeronArea(a, b, c) ==
    IF IsInf(a) \/ IsInf(b) \/ IsInf(c) THEN NaN
    ELSE NSqrt(HeronRadicand(NSquare(a), NSquare(b), NSquare(c)))

(***************************************************************************)
(* JavaScript arrays.  A sequence a models the array whose element k       *)
(* (0-based) is a[k + 1].                                                  *)
(***************************************************************************)
\* new Float32Array(n): n zeros
Zeros(n) == [i \in 1..n |-> Zero]

\* a[i * k + j] for a number i and integers k, j, where the program uses the
\* value as a number: a missing element (undefined), and any element at an
\* index that is NaN, behaves as NaN in arithmetic and when it is stored
\* into a typed array
ReadAt(a, i, k, j) ==
    IF IsInteger(i) /\ ToInt(i) * k + j >= 0 /\ ToInt(i) * k + j < Len(a)
    THEN a[ToInt(i) * k + j + 1] ELSE NaN

\* ToUint32, the conversion of new Uint32Array(array): NaN and the infinities
\* become 0, an integer in 0 .. 2^32 - 1 is kept.  A negative integer wraps
\* modulo 2^32, to a value beyond the integers of the model checker: the
\* inputs hold no tetrahedron index below 1, so that no such value arises.
ToUint32(x) ==
    IF ~IsFinite(x) THEN Zero
    ELSE IF IsInteger(x) /\ ToInt(x) >= 0 THEN x
    ELSE Unrepresentable

(***************************************************************************)
(* Text.  A string is a sequence of one-character strings.                 *)
(***************************************************************************)
DigitChars == <<"0", "1", "2", "3", "4", "5", "6", "7", "8", "9">>

IsDigit(c) == \E d \in 1..10 : DigitChars[d] = c

DigitVal(c) == (CHOOSE d \in 1..10 : DigitChars[d] = c) - 1

IsSpace(c) == c \in {" ", "\t", "\r", "\n"}

\* the value of `undefined` where the program reads a missing array element
Undefined == <<"undefined">>

\* String.prototype.trim
RECURSIVE TrimLeft(_)
TrimLeft(s) ==
    IF s # <<>> /\ IsSpace(Head(s)) THEN TrimLeft(Tail(s)) ELSE s

RECURSIVE TrimRight(_)
TrimRight(s) ==
    IF s # <<>> /\ IsSpace(s[Len(s)]) THEN TrimRight(SubSeq(s, 1, Len(s) - 1)) ELSE s

Trim(s) == TrimRight(TrimLeft(s))

\* String.prototype.split(sep) for a one-character separator
RECURSIVE Split(_, _)
Split(s, sep) ==
    IF \E i \in 1..Len(s) : s[i] = sep
    THEN LET i == CHOOSE k \in 1..Len(s) : s[k] = sep /\ \A j \in 1..(k - 1) : s[j] # sep
         IN <<SubSeq(s, 1, i - 1)>> \o Split(SubSeq(s, i + 1, Len(s)), sep)
    ELSE <<s>>

\* text.split(/\r?\n/): split at "\n", a "\r" just before it belongs to the separator
SplitLines(text) ==
    LET parts == Split(text, "\n")
    IN [k \in 1..Len(parts) |->
          IF k < Len(parts) /\ parts[k] # <<>> /\ parts[k][Len(parts[k])] = "\r"
          THEN SubSeq(parts[k], 1, Len(parts[k]) - 1) ELSE parts[k]]

\* the longest prefix of s made of digits
RECURSIVE DigitPrefix(_)
DigitPrefix(s) ==
    IF s # <<>> /\ IsDigit(Head(s)) THEN <<Head(s)>> \o DigitPrefix(Tail(s)) ELSE <<>>

RECURSIVE DecimalValue(_)
DecimalValue(ds) ==
    IF ds = <<>> THEN 0
    ELSE 10 * DecimalValue(SubSeq(ds, 1, Len(ds) - 1)) + DigitVal(ds[Len(ds)])

RECURSIVE Pow10(_)
Pow10(n) == IF n = 0 THEN 1 ELSE 10 * Pow10(n - 1)

\* parseInt(s): leading white space, an optional sign, then decimal digits;
\* what follows the digits is ignored, no digit at all gives NaN
\* (hexadecimal "0x" prefixes are not modelled)
ParseInt(s) ==
    LET t == TrimLeft(s)
        neg == t # <<>> /\ Head(t) = "-"
        u == IF t # <<>> /\ Head(t) \in {"-", "+"} THEN Tail(t) ELSE t
        ds == DigitPrefix(u)
    IN IF ds = <<>> THEN NaN
       ELSE Num((IF neg THEN -1 ELSE 1) * DecimalValue(ds))

\* parseFloat(s): leading white space, an optional sign, decimal digits and
\* an optional fraction; no digit at all gives NaN
\* (exponents and the literal "Infinity" are not modelled)
ParseFloat(s) ==
    LET t == TrimLeft(s)
        neg == t # <<>> /\ Head(t) = "-"
        u == IF t # <<>> /\ Head(t) \in {"-", "+"} THEN Tail(t) ELSE t
        ds == DigitPrefix(u)
        rest == SubSeq(u, Len(ds) + 1, Len(u))
        fs == IF rest # <<>> /\ Head(rest) = "." THEN DigitPrefix(Tail(rest)) ELSE <<>>
        sign == IF neg THEN -1 ELSE 1
    IN IF ds = <<>> /\ fs = <<>> THEN NaN
       ELSE Norm(sign * (DecimalValue(ds) * Pow10(Len(fs)) + DecimalValue(fs)),
                 Pow10(Len(fs)), 1)

\* values[k] of a JavaScript array of strings, undefined past its end
Value(values, k) == IF k < Len(values) THEN values[k + 1] ELSE Undefined

(***************************************************************************)
(* Loader.parseTetFile.  The result carries `threw`: an `f` line with      *)
(* fewer than three corner tokens calls split on undefined, a TypeError    *)
(* that ends the forEach and leaves parseTetFile by exception.             *)
(***************************************************************************)
EmptyParsedTetFile ==
    [threw |-> FALSE, vertices |-> <<>>, texCoords |-> <<>>,
     faces |-> <<>>, tetsIndices |-> <<>>]

\* a faulty variant of ParseIndex: the index kept 1-based
ParseIndexNoShift(s) == ParseInt(s)

\* parseInt(token) - 1: a 1-based index of the text as a 0-based index
ParseIndex(s) == NSub(ParseInt(s), Num(1))

\* the indices of one corner token "v/t": one per "/"-separated part
ParseCorner(token) ==
    LET indicesStrs == Split(token, "/")
    IN [j \in 1..Len(indicesStrs) |-> ParseIndex(indicesStrs[j])]

\* one call of the forEach callback
ParseLine(result, rawLine) ==
    LET line == Trim(rawLine)
        values == Split(line, " ")
        head == values[1]
    IN IF line # <<>> /\ Head(line) = "#" THEN result
       ELSE IF head = <<"v">> THEN
            [result EXCEPT !.vertices = @ \o <<ParseFloat(Value(values, 1)),
                                              ParseFloat(Value(values, 2)),
                                              ParseFloat(Value(values, 3))>>]
       ELSE IF head = <<"v", "t">> THEN
            [result EXCEPT !.texCoords = @ \o <<ParseFloat(Value(values, 1)),
                                               ParseFloat(Value(values, 2))>>]
       ELSE IF head = <<"f">> THEN
            IF \E i \in 0..2 : Value(values, 1 + i) = Undefined
            THEN [result EXCEPT !.threw = TRUE]
            ELSE [result EXCEPT !.faces =
                     Append(@, [i \in 1..3 |-> ParseCorner(Value(values, i))])]
       ELSE IF head = <<"t">> THEN
            [result EXCEPT !.tetsIndices = @ \o <<ParseIndex(Value(values, 1)),
                                                 ParseIndex(Value(values, 2)),
                                                 ParseIndex(Value(values, 3)),
                                                 ParseIndex(Value(values, 4))>>]
       ELSE result

RECURSIVE ParseLines(_, _, _)
ParseLines(result, lines, k) ==
    IF k > Len(lines) \/ result.threw THEN result
    ELSE ParseLines(ParseLine(result, lines[k]), lines, k + 1)

parseTetFile(text) == ParseLines(EmptyParsedTetFile, SplitLines(text), 1)

(***************************************************************************)
(* TetFile.  faces is a sequence of faces, a face a sequence of three      *)
(* corners, a corner the sequence of its indices ([v, t] for "v/t", [v]    *)
(* for "v").  connectedFaces is the Map as the sequence of its entries     *)
(* <<vertexIndex, connections>> in insertion order.  geometry.exists is    *)
(* FALSE while the field is undefined; its attributes share the three      *)
(* per-corner arrays, so only their needsUpdate flags are kept.            *)
(***************************************************************************)
NoGeometry ==
    [exists |-> FALSE, positionNeedsUpdate |-> FALSE,
     uvNeedsUpdate |-> FALSE, normalNeedsUpdate |-> FALSE]

\* new THREE.BufferGeometry() with the three attributes set
NewGeometry == [NoGeometry EXCEPT !.exists = TRUE]

\* face[k][0], the vertex index of corner k (0-based) of a face
CornerVertex(face, k) == face[k + 1][1]

\* faceEntry[p] (p = 0 the vertex index, p = 1 the texcoord index): undefined,
\* used as NaN, when the corner token had no such part
CornerIndex(faceEntry, p) == IF Len(faceEntry) > p THEN faceEntry[p + 1] ELSE NaN

\* the corners of all faces in the order of the nested loops
\*   for faceIndex ... for faceEntryIndex < face.length ...
\* so that corner number c (0-based, the running vertexIndex or
\* vertexVisualIndex of those loops) is Corners(faces)[c + 1]
RECURSIVE Corners(_)
Corners(faces) == IF faces = <<>> THEN <<>> ELSE Head(faces) \o Corners(Tail(faces))

\* the loops that write a per-corner buffer, `width` floats per corner: a
\* typed array keeps its length, a store past its end is ignored, and float
\* j of corner c becomes floats[c + 1][j + 1]
FillCorners(buffer, floats, width) ==
    [k \in 1..Len(buffer) |->
        IF (k - 1) \div width < Len(floats)
        THEN floats[((k - 1) \div width) + 1][((k - 1) % width) + 1]
        ELSE buffer[k]]

\* for every corner in loop order, the floats array[faceEntry[p] * width + j]
CornerFloats(faces, array, width, p) ==
    [c \in 1..Len(Corners(faces)) |->
        [j \in 1..width |-> ReadAt(array, CornerIndex(Corners(faces)[c], p), width, j - 1)]]

\* the body of the first loop of recalcNormals from the three positions:
\* <<xN / n, yN / n, zN / n, area>>
FaceNormalOfPoints(x0, y0, z0, x1, y1, z1, x2, y2, z2) ==
    LET xA == NSub(x0, x1)
        yA == NSub(y0, y1)
        zA == NSub(z0, z1)
        xB == NSub(x0, x2)
        yB == NSub(y0, y2)
        zB == NSub(z0, z2)
        xN == NSub(NMul(yA, zB), NMul(zA, yB))
        yN == NSub(NMul(zA, xB), NMul(xA, zB))
        zN == NSub(NMul(xA, yB), NMul(yA, xB))
    IN <<xN, yN, zN,
         HeronArea(Hypot(xA, yA, zA), Hypot(xB, yB, zB),
                   Hypot(NSub(x1, x2), NSub(y1, y2), NSub(z1, z2)))>>

\* xN / n, yN / n, zN / n for n = Math.hypot(xN, yN, zN)
Normalize(r, n) == <<NDiv(r[1], n), NDiv(r[2], n), NDiv(r[3], n), r[4]>>

NormalizeCross(r) == Normalize(r, Hypot(r[1], r[2], r[3]))

FaceNormalAndArea(vertices, face) ==
    NormalizeCross(FaceNormalOfPoints(
        ReadAt(vertices, CornerVertex(face, 0), 3, 0),
        ReadAt(vertices, CornerVertex(face, 0), 3, 1),
        ReadAt(vertices, CornerVertex(face, 0), 3, 2),
        ReadAt(vertices, CornerVertex(face, 1), 3, 0),
        ReadAt(vertices, CornerVertex(face, 1), 3, 1),
        ReadAt(vertices, CornerVertex(face, 1), 3, 2),
        ReadAt(vertices, CornerVertex(face, 2), 3, 0),
        ReadAt(vertices, CornerVertex(face, 2), 3, 1),
        ReadAt(vertices, CornerVertex(face, 2), 3, 2)))

\* a faulty variant of StoreFaceData: faceAreas[faceIndex] += area
StoreFaceDataAddingAreas(t, data) ==
    [t EXCEPT !.faceNormals =
                 [k \in 1..Len(@) |->
                     IF (k - 1) \div 3 < Len(data)
                     THEN data[((k - 1) \div 3) + 1][((k - 1) % 3) + 1] ELSE @[k]],
              !.faceAreas =
                 [k \in 1..Len(@) |->
                     IF k <= Len(data) THEN NAdd(@[k], data[k][4]) ELSE @[k]]]

\* the stores of the first loop: faceNormals[faceIndex * 3 + j] and
\* faceAreas[faceIndex] for every face, data[f] being the result for face f - 1
StoreFaceData(t, data) ==
    [t EXCEPT !.faceNormals =
                 [k \in 1..Len(@) |->
                     IF (k - 1) \div 3 < Len(data)
                     THEN data[((k - 1) \div 3) + 1][((k - 1) % 3) + 1] ELSE @[k]],
              !.faceAreas =
                 [k \in 1..Len(@) |-> IF k <= Len(data) THEN data[k][4] ELSE @[k]]]

\* the first loop of recalcNormals
FaceLoop(t) ==
    StoreFaceData(t, [f \in 1..Len(t.faces) |-> FaceNormalAndArea(t.vertices, t.faces[f])])

\* let vnx = 0, vny = 0, vnz = 0, areaSum = 0
AccumulatorStart == <<Zero, Zero, Zero, Zero>>

\* what one adjacent face adds to <<vnx, vny, vnz, areaSum>>:
\* vnx += fnx; vny += fny; vnz += fnz; areaSum += faceArea
Contribution(t, faceIndex) ==
    <<ReadAt(t.faceNormals, Num(faceIndex), 3, 0),
      ReadAt(t.faceNormals, Num(faceIndex), 3, 1),
      ReadAt(t.faceNormals, Num(faceIndex), 3, 2),
      ReadAt(t.faceAreas, Num(faceIndex), 1, 0)>>

Add4(acc, c) ==
    <<NAdd(acc[1], c[1]), NAdd(acc[2], c[2]), NAdd(acc[3], c[3]), NAdd(acc[4], c[4])>>

\* for (const faceIndex of connections) { ... }
RECURSIVE SumConnections(_, _, _, _)
SumConnections(t, connections, k, acc) ==
    IF k > Len(connections) THEN acc
    ELSE SumConnections(t, connections, k + 1, Add4(acc, Contribution(t, connections[k])))

\* vnx /= areaSum ...; len = Math.hypot(vnx, vny, vnz); vnx /= len ...
DivideByAreaSum(acc) == <<NDiv(acc[1], acc[4]), NDiv(acc[2], acc[4]), NDiv(acc[3], acc[4]), acc[4]>>

\* the vertex normal of one entry of connectedFaces
VertexNormal(t, vertexIndex, connections) ==
    NormalizeCross(DivideByAreaSum(
        SumConnections(t, connections, 1, AccumulatorStart)))

\* the stores of the second loop: normals[vertexIndex * 3 + j] for every entry
\* of connectedFaces (its keys are distinct), vns[e] being the result for entry e
StoreVertexNormals(t, vns) ==
    [t EXCEPT !.normals =
        [k \in 1..Len(@) |->
            IF \E e \in 1..Len(t.connectedFaces) :
                  /\ IsInteger(t.connectedFaces[e][1])
                  /\ ToInt(t.connectedFaces[e][1]) = (k - 1) \div 3
            THEN vns[CHOOSE e \in 1..Len(t.connectedFaces) :
                        /\ IsInteger(t.connectedFaces[e][1])
                        /\ ToInt(t.connectedFaces[e][1]) = (k - 1) \div 3][((k - 1) % 3) + 1]
            ELSE @[k]]]

\* the second loop of recalcNormals
VertexLoop(t) ==
    StoreVertexNormals(t, [e \in 1..Len(t.connectedFaces) |->
        VertexNormal(t, t.connectedFaces[e][1], t.connectedFaces[e][2])])

\* a faulty variant of ExpandNormals: the normal is looked up by faceEntry[1]
ExpandNormalsByTexCoord(t) ==
    [t EXCEPT !.verticesNormals =
        FillCorners(@, CornerFloats(t.faces, t.normals, 3, 1), 3)]

\* the third loop of recalcNormals:
\* verticesNormals[vertexVisualIndex * 3 + j] = normals[vertexIndex * 3 + j]
ExpandNormals(t) ==
    [t EXCEPT !.verticesNormals =
        FillCorners(@, CornerFloats(t.faces, t.normals, 3, 0), 3)]

\* a faulty variant of SignalNormal: the attribute is never marked
NoSignalNormal(t) == t

\* if (this.geometry) this.geometry.attributes.normal.needsUpdate = true
SignalNormal(t) ==
    IF t.geometry.exists THEN [t EXCEPT !.geometry.normalNeedsUpdate = TRUE] ELSE t

\* if (this.geometry) this.geometry.attributes.position.needsUpdate = true
SignalPosition(t) ==
    IF t.geometry.exists THEN [t EXCEPT !.geometry.positionNeedsUpdate = TRUE] ELSE t

recalcNormals(t) == SignalNormal(ExpandNormals(VertexLoop(FaceLoop(t))))

\* the loop of copyDataToBuffer:
\* verticesPositions[vertexIndex * 3 + j] = vertices[faceEntry[0] * 3 + j]
CopyLoop(t) ==
    [t EXCEPT !.verticesPositions =
        FillCorners(@, CornerFloats(t.faces, t.vertices, 3, 0), 3)]

\* a faulty variant of copyDataToBuffer: the normals are recomputed as well
copyDataToBufferAndNormals(t) == SignalPosition(CopyLoop(recalcNormals(t)))

copyDataToBuffer(t) == SignalPosition(CopyLoop(t))

(***************************************************************************)
(* Loader.loadTet, the part after `await this.fetchText(url)`.             *)
(***************************************************************************)
\* a faulty variant of CornerBufferLength: one corner per face
CornerBufferLengthPerFace(triangleCount, width) == triangleCount * width

\* new Float32Array(result.triangleCount * 3 * width): the length of a
\* per-corner buffer of `width` floats per corner
CornerBufferLength(triangleCount, width) == triangleCount * 3 * width

\* new Float32Array(result.vertices.length * 3): the length of normals
NormalsLength(vertices) == Len(vertices) * 3

\* connectedFaces.get(vertexIndex) || []
MapGet(map, key) ==
    IF \E k \in 1..Len(map) : map[k][1] = key
    THEN map[CHOOSE k \in 1..Len(map) : map[k][1] = key][2] ELSE <<>>

\* connectedFaces.set(vertexIndex, connections): a new key is appended, the
\* value of a present key is replaced in place
MapSet(map, key, value) ==
    IF \E k \in 1..Len(map) : map[k][1] = key
    THEN [k \in 1..Len(map) |-> IF map[k][1] = key THEN <<key, value>> ELSE map[k]]
    ELSE Append(map, <<key, value>>)

\* a faulty variant of AddConnection: push without the includes test
AddConnectionAlways(connections, faceIndex) == Append(connections, faceIndex)

\* if (!connections.includes(faceIndex)) connections.push(faceIndex)
AddConnection(connections, faceIndex) ==
    IF \E k \in 1..Len(connections) : connections[k] = faceIndex
    THEN connections ELSE Append(connections, faceIndex)

\* the loops filling connectedFaces
RECURSIVE ConnectLoop(_, _, _, _)
ConnectLoop(faces, map, faceIndex, faceVertexIndex) ==
    IF faceIndex >= Len(faces) THEN map
    ELSE IF faceVertexIndex >= 3 THEN ConnectLoop(faces, map, faceIndex + 1, 0)
    ELSE ConnectLoop(faces,
                     MapSet(map, faces[faceIndex + 1][faceVertexIndex + 1][1],
                            AddConnection(MapGet(map, faces[faceIndex + 1][faceVertexIndex + 1][1]),
                                          faceIndex)),
                     faceIndex, faceVertexIndex + 1)

\* the loops filling verticesTexCoords:
\* verticesTexCoords[vertexIndex * 2 + j] = texCoords[faceEntry[1] * 2 + j]
TexCoordLoop(t) ==
    [t EXCEPT !.verticesTexCoords =
        FillCorners(@, CornerFloats(t.faces, t.texCoords, 2, 1), 2)]

\* the TetFile before any buffer is computed: lines 191-222
AllocateTetFile(tet) ==
    [triangleCount |-> Len(tet.faces),
     vertices |-> tet.vertices,
     tetsIndices |-> [k \in 1..Len(tet.tetsIndices) |-> ToUint32(tet.tetsIndices[k])],
     faces |-> tet.faces,
     texCoords |-> tet.texCoords,
     faceNormals |-> Zeros(Len(tet.faces) * 3),
     faceAreas |-> Zeros(Len(tet.faces)),
     normals |-> Zeros(NormalsLength(tet.vertices)),
     connectedFaces |-> ConnectLoop(tet.faces, <<>>, 0, 0),
     verticesPositions |-> Zeros(CornerBufferLength(Len(tet.faces), 3)),
     verticesTexCoords |-> Zeros(CornerBufferLength(Len(tet.faces), 2)),
     verticesNormals |-> Zeros(CornerBufferLength(Len(tet.faces), 3)),
     geometry |-> NoGeometry]

\* result.geometry = new THREE.BufferGeometry(); setAttribute(...) x 3
SetGeometry(t) == [t EXCEPT !.geometry = NewGeometry]

\* the TetFile loadTet resolves with: lines 191-248
BuildTetFile(tet) ==
    SetGeometry(copyDataToBuffer(recalcNormals(TexCoordLoop(AllocateTetFile(tet)))))

\* the value of `result` while loadTet has not created it
NoTetFile == AllocateTetFile(EmptyParsedTetFile)

(***************************************************************************)
(* Input files.  A file is described by its directives and written out as  *)
(* text; the loader sees the text only.                                    *)
(*   src.nv     number of `v` lines; vertex i is at PointList[i]           *)
(*   src.faces  the `f` lines: a face is a sequence of corners, a corner   *)
(*              the sequence of its "/"-separated parts, a part a 1-based  *)
(*              index or, when negative, a malformed token                 *)
(*   src.tets   the `t` lines, four parts each                             *)
(* Any three points of PointList span a triangle whose doubled area is an  *)
(* integer, so every number the program computes is representable.         *)
(***************************************************************************)
PointList ==
    << <<0, 0, 0>>, <<1, 0, 0>>, <<0, 1, 0>>, <<0, 0, 2>>,
       <<-1, 0, 0>>, <<0, -1, 0>>, <<0, 0, -2>> >>

\* texture coordinate i of every file
TexCoordList == << <<0, 0>>, <<1, 0>>, <<0, 1>> >>

FaceChoices ==
    << << <<3, 1>>, <<2, 1>>, <<1, 1>> >>,      \* the next face, wound the other way
       << <<1, 1>>, <<2, 2>>, <<3, 3>> >>,      \* area 1/2, normal +z
       << <<1, 1>>, <<3, 2>>, <<4, 3>> >>,      \* area 1, normal +x
       << <<2, 1>>, <<3, 2>>, <<4, 3>> >>,      \* area 3/2, normal (2, 2, 1) / 3
       << <<1, 2>>, <<2, 3>>, <<4, 1>> >>,      \* area 1, normal -y
       << <<1, 1>>, <<1, 2>>, <<2, 3>> >>,      \* a vertex in two corners
       << <<1>>, <<2>>, <<3>> >>,               \* no texcoord index
       << <<1, 1>>, <<2, 2>>, <<12, 3>> >>,     \* vertex index out of range
       << <<1, 1>>, <<2, 9>>, <<3, 3>> >>,      \* texcoord index out of range
       << <<5, 2>>, <<-1, 2>>, <<3, 3>> >>,     \* malformed vertex index
       << <<1, 1>>, <<2, 2>> >> >>              \* a corner missing

TetChoices ==
    << <<1, 2, 3, 4>>, <<1, 2, 3, 1>>, <<2, 10, 3, 4>>, <<1, -1, 3, 4>> >>

\* n consecutive entries of a list of choices, from entry a on, cyclically
Window(choices, a, n) ==
    [k \in 1..n |-> choices[((a + k - 2) % Len(choices)) + 1]]

\* the files: the last vertex may be missing, the faces are up to MaxFaces
\* consecutive choices, the tetrahedra up to two
Sources ==
    { [nv |-> nv, faces |-> Window(FaceChoices, a, n), tets |-> Window(TetChoices, a, a % 3)] :
        nv \in (MaxVerts - 1)..MaxVerts, a \in 1..Len(FaceChoices), n \in 0..MaxFaces }

\* what the simulation may write in one step: <<i, p>> moves vertex i
\* (0-based) to PointList[p]
Deformations == { <<0, 2>>, <<1, 5>>, <<3, 7>> }

\* the decimal digits of a natural number
RECURSIVE DigitsOf(_)
DigitsOf(n) ==
    IF n < 10 THEN <<DigitChars[n + 1]>>
    ELSE DigitsOf(n \div 10) \o <<DigitChars[(n % 10) + 1]>>

NumberChars(n) == IF n < 0 THEN <<"-">> \o DigitsOf(-n) ELSE DigitsOf(n)

\* an index part: its digits, or a token that is no number
PartChars(part) == IF part < 0 THEN <<"x">> ELSE DigitsOf(part)

RECURSIVE Join(_, _)
Join(pieces, sep) ==
    IF pieces = <<>> THEN <<>>
    ELSE IF Len(pieces) = 1 THEN pieces[1]
    ELSE pieces[1] \o <<sep>> \o Join(Tail(pieces), sep)

CornerChars(corner) == Join([j \in 1..Len(corner) |-> PartChars(corner[j])], "/")

VertexLine(i) ==
    Join(<< <<"v">> >> \o [k \in 1..3 |-> NumberChars(PointList[i][k])], " ")

TexCoordLine(i) ==
    Join(<< <<"v", "t">> >> \o [k \in 1..2 |-> NumberChars(TexCoordList[i][k])], " ")

\* the first `f` line is indented, to be trimmed
FaceLine(face) ==
    Join(<< <<"f">> >> \o [k \in 1..Len(face) |-> CornerChars(face[k])], " ")

TetLine(tet) ==
    Join(<< <<"t">> >> \o [k \in 1..4 |-> PartChars(tet[k])], " ")

\* the text of a file: a comment ended by "\r\n", the directives, a blank
\* line before the faces, the first face indented, a final line break
TextOf(source) ==
    LET vs == [i \in 1..source.nv |-> VertexLine(i)]
        vts == [i \in 1..Len(TexCoordList) |-> TexCoordLine(i)]
        fs == [k \in 1..Len(source.faces) |->
                 IF k = 1 THEN <<" ", " ">> \o FaceLine(source.faces[k]) \o <<" ">>
                 ELSE FaceLine(source.faces[k])]
        ts == [k \in 1..Len(source.tets) |-> TetLine(source.tets[k])]
    IN <<"#", " ", "t", "e", "t", "\r", "\n">>
       \o Join(vs \o vts \o << <<>> >> \o fs \o ts, "\n") \o <<"\n">>

(***************************************************************************)
(* State.                                                                  *)
(*   source, text      the file behind the URL (source describes text)     *)
(*   renderLoad        where Render.load is suspended, or how it ended     *)
(*   fetchState        the fetch of fetchText: idle, pending, or how it    *)
(*                     ended (ok, status, transport)                       *)
(*   fetchTextPromise  the promise fetchText returned                      *)
(*   loadTetExecutor   the async executor of loadTet's promise             *)
(*   loadTetPromise    the promise loadTet returned                        *)
(*   tet               the TetFile (`result` of loadTet, Render.donut)     *)
(*   donut             Render.donut has been assigned                      *)
(*   donutModel        the mesh over tet.geometry exists and is in scene   *)
(*   writes            number of external writes to tet.vertices so far    *)
(***************************************************************************)
VARIABLES source, text, renderLoad, fetchState, fetchTextPromise,
          loadTetExecutor, loadTetPromise, tet, donut, donutModel, writes

vars == <<source, text, renderLoad, fetchState, fetchTextPromise,
          loadTetExecutor, loadTetPromise, tet, donut, donutModel, writes>>

loadVars == <<renderLoad, fetchState, fetchTextPromise, loadTetExecutor, loadTetPromise>>

Init ==
    /\ source \in Sources
    /\ text = TextOf(source)
    /\ renderLoad = "wallTexture"
    /\ fetchState = "idle"
    /\ fetchTextPromise = "none"
    /\ loadTetExecutor = "none"
    /\ loadTetPromise = "none"
    /\ tet = NoTetFile
    /\ donut = FALSE
    /\ donutModel = FALSE
    /\ writes = 0

\* Render.load resumes after the wall texture: lines 38-41.  loadTet creates
\* its promise and runs its executor up to the await, fetchText creates its
\* promise and its executor issues the fetch.
WallTextureLoaded ==
    /\ renderLoad = "wallTexture"
    /\ renderLoad' = "loadTet"
    /\ loadTetPromise' = "pending"
    /\ loadTetExecutor' = "awaiting"
    /\ fetchTextPromise' = "pending"
    /\ fetchState' = "pending"
    /\ UNCHANGED <<source, text, tet, donut, donutModel, writes>>

\* loadTexture rejects (the wall texture or the model texture): Render.load
\* ends rejected
TextureFailed ==
    /\ renderLoad \in {"wallTexture", "modelTexture"}
    /\ renderLoad' = "rejected"
    /\ UNCHANGED <<source, text, fetchState, fetchTextPromise, loadTetExecutor,
                   loadTetPromise, tet, donut, donutModel, writes>>

\* the fetch answers with a status; the executor of fetchText resumes:
\* reject for a status other than 200, else resolve with the text
FetchResponds(status) ==
    /\ fetchState = "pending"
    /\ fetchState' = IF status = 200 THEN "ok" ELSE "status"
    /\ fetchTextPromise' = IF status # 200 THEN "rejected" ELSE "resolved"
    /\ UNCHANGED <<source, text, renderLoad, loadTetExecutor, loadTetPromise,
                   tet, donut, donutModel, writes>>

\* the fetch fails (transport): `await fetch(url)` throws inside the async
\* executor of fetchText, whose own promise nobody holds; neither resolve
\* nor reject is called
FetchFails ==
    /\ fetchState = "pending"
    /\ fetchState' = "transport"
    /\ UNCHANGED <<source, text, renderLoad, fetchTextPromise, loadTetExecutor,
                   loadTetPromise, tet, donut, donutModel, writes>>

\* the executor of loadTet resumes from `await this.fetchText(url)`.  On a
\* rejection the await throws; parseTetFile may throw; an exception leaves
\* the async executor without a call of resolve or reject.
LoadTetResumes ==
    /\ loadTetExecutor = "awaiting"
    /\ fetchTextPromise \in {"resolved", "rejected"}
    /\ LET parsed == parseTetFile(text)
       IN IF fetchTextPromise = "rejected" \/ parsed.threw
          THEN /\ loadTetExecutor' = "threw"
               /\ UNCHANGED <<loadTetPromise, tet>>
          ELSE /\ loadTetExecutor' = "returned"
               /\ tet' = BuildTetFile(parsed)
               /\ loadTetPromise' = "resolved"
    /\ UNCHANGED <<source, text, renderLoad, fetchState, fetchTextPromise,
                   donut, donutModel, writes>>

\* Render.load resumes from `await loader.loadTet(...)`: lines 41-49
RenderLoadResumes ==
    /\ renderLoad = "loadTet"
    /\ loadTetPromise \in {"resolved", "rejected"}
    /\ IF loadTetPromise = "resolved"
       THEN renderLoad' = "modelTexture" /\ donut' = TRUE
       ELSE renderLoad' = "rejected" /\ UNCHANGED donut
    /\ UNCHANGED <<source, text, fetchState, fetchTextPromise, loadTetExecutor,
                   loadTetPromise, tet, donutModel, writes>>

\* Render.load resumes after the model texture: lines 42-68
ModelTextureLoaded ==
    /\ renderLoad = "modelTexture"
    /\ renderLoad' = "done"
    /\ donutModel' = TRUE
    /\ UNCHANGED <<source, text, fetchState, fetchTextPromise, loadTetExecutor,
                   loadTetPromise, tet, donut, writes>>

\* the simulation writes the position of vertex d[1] (0-based) into
\* tet.vertices, between two calls of the recomputation
SimWrite(d) ==
    /\ donut
    /\ writes < MaxWrites
    /\ d[1] * 3 + 2 < Len(tet.vertices)
    /\ tet' = [tet EXCEPT !.vertices =
                  [k \in 1..Len(@) |->
                      IF k \in (d[1] * 3 + 1)..(d[1] * 3 + 3)
                      THEN Num(PointList[d[2]][k - d[1] * 3]) ELSE @[k]]]
    /\ writes' = writes + 1
    /\ UNCHANGED <<source, text, loadVars, donut, donutModel>>

\* Render.updateTetModel (a call before Render.donut is assigned throws and
\* changes nothing)
updateTetModel ==
    /\ donut
    /\ tet' = copyDataToBuffer(recalcNormals(tet))
    /\ UNCHANGED <<source, text, loadVars, donut, donutModel, writes>>

\* a call of tetModel.recalcNormals() alone
CallRecalcNormals ==
    /\ donut
    /\ tet' = recalcNormals(tet)
    /\ UNCHANGED <<source, text, loadVars, donut, donutModel, writes>>

\* a call of tetModel.copyDataToBuffer() alone
CallCopyDataToBuffer ==
    /\ donut
    /\ tet' = copyDataToBuffer(tet)
    /\ UNCHANGED <<source, text, loadVars, donut, donutModel, writes>>

\* Render.draw with the mesh in the scene: the renderer uploads the
\* attributes marked changed and clears the marks
draw ==
    /\ donutModel
    /\ tet' = [tet EXCEPT !.geometry.positionNeedsUpdate = FALSE,
                          !.geometry.uvNeedsUpdate = FALSE,
                          !.geometry.normalNeedsUpdate = FALSE]
    /\ UNCHANGED <<source, text, loadVars, donut, donutModel, writes>>

Next ==
    \/ WallTextureLoaded
    \/ TextureFailed
    \/ \E status \in {200, 404} : FetchResponds(status)
    \/ FetchFails
    \/ LoadTetResumes
    \/ RenderLoadResumes
    \/ ModelTextureLoaded
    \/ \E d \in Deformations : SimWrite(d)
    \/ updateTetModel
    \/ CallRecalcNormals
    \/ CallCopyDataToBuffer
    \/ draw

Spec == Init /\ [][Next]_vars

(***************************************************************************)
(* What a file says, read off its description.                             *)
(***************************************************************************)
Resolved == loadTetPromise = "resolved"

\* the fetch answered with a status other than 200, or failed
FetchFailed == fetchState \in {"status", "transport"}

\* no step of loadTet remains: its executor has ended, or waits for the
\* promise of fetchText after the fetch failed without settling it
LoadTetAtRest ==
    \/ loadTetExecutor \in {"returned", "threw"}
    \/ loadTetExecutor = "awaiting" /\ fetchState = "transport"

\* some numeric token of an `f` or `t` line is malformed
MalformedToken(src) ==
    \/ \E f \in 1..Len(src.faces) : \E c \in 1..Len(src.faces[f]) :
          \E j \in 1..Len(src.faces[f][c]) : src.faces[f][c][j] < 0
    \/ \E k \in 1..Len(src.tets) : \E j \in 1..4 : src.tets[k][j] < 0

\* some face or tetrahedron names a vertex or texcoord the file does not have
IndexOutOfRange(src) ==
    \/ \E f \in 1..Len(src.faces) : \E c \in 1..Len(src.faces[f]) :
          \/ src.faces[f][c][1] \notin 1..src.nv
          \/ Len(src.faces[f][c]) >= 2 /\ src.faces[f][c][2] \notin 1..Len(TexCoordList)
    \/ \E k \in 1..Len(src.tets) : \E j \in 1..4 : src.tets[k][j] \notin 1..src.nv

(***************************************************************************)
(* C1.  When the text cannot be retrieved (a status other than 200, or a   *)
(* transport failure), the promise of loadTet settles as rejected: once    *)
(* no step of the load remains, it is rejected, not pending.               *)
(***************************************************************************)
C1_FetchFailureRejects ==
    (FetchFailed /\ LoadTetAtRest) => loadTetPromise = "rejected"

(***************************************************************************)
(* C2.  In a load attempt with a load-time error (fetch failure, malformed *)
(* numeric token, index out of range) loadTet never resolves with a        *)
(* TetFile, never constructs the geometry, and no mesh reaches the scene.  *)
(***************************************************************************)
LoadTimeError == FetchFailed \/ MalformedToken(source) \/ IndexOutOfRange(source)

C2_ErrorExposesNothing ==
    LoadTimeError => ~Resolved /\ ~tet.geometry.exists /\ ~donut /\ ~donutModel

(***************************************************************************)
(* C3.  After loadTet resolves, through every later recalcNormals,         *)
(* copyDataToBuffer and external write, the three per-corner buffers hold  *)
(* 3 x faceCount entries of 3, 2 and 3 floats: they are never resized.     *)
(***************************************************************************)
C3_CornerBufferLengths ==
    Resolved =>
        /\ Len(tet.verticesPositions) = 3 * Len(source.faces) * 3
        /\ Len(tet.verticesTexCoords) = 3 * Len(source.faces) * 2
        /\ Len(tet.verticesNormals) = 3 * Len(source.faces) * 3

\* two faces loaded, a vertex written, and both buffers rewritten since
C3_Witness ==
    /\ Resolved
    /\ Len(source.faces) = 2
    /\ writes > 0
    /\ tet.geometry.positionNeedsUpdate
    /\ tet.geometry.normalNeedsUpdate
    /\ Len(tet.verticesTexCoords) = 12

(***************************************************************************)
(* C4.  After loadTet, connectedFaces has an entry exactly for the vertex  *)
(* indices that appear in some corner of some face; the entry of v lists,  *)
(* without repetition, exactly the faces that have v in some corner (so    *)
(* it is not empty).                                                       *)
(***************************************************************************)
\* the faces (0-based) that have v in some corner
FacesWith(v) ==
    { f \in 0..(Len(tet.faces) - 1) : \E k \in 0..2 : CornerVertex(tet.faces[f + 1], k) = v }

ReferencedVertices ==
    { CornerVertex(tet.faces[f], k) : f \in 1..Len(tet.faces), k \in 0..2 }

C4_Adjacency ==
    Resolved =>
        /\ { tet.connectedFaces[e][1] : e \in 1..Len(tet.connectedFaces) } = ReferencedVertices
        /\ Len(tet.connectedFaces) = Cardinality(ReferencedVertices)
        /\ \A e \in 1..Len(tet.connectedFaces) :
              LET connections == tet.connectedFaces[e][2]
              IN /\ connections # <<>>
                 /\ \A i, j \in 1..Len(connections) : i # j => connections[i] # connections[j]
                 /\ { connections[i] : i \in 1..Len(connections) }
                        = FacesWith(tet.connectedFaces[e][1])

\* a face with one vertex in two corners, and a vertex shared by two faces
C4_Witness ==
    /\ Resolved
    /\ \E f \in 1..Len(tet.faces) :
          CornerVertex(tet.faces[f], 0) = CornerVertex(tet.faces[f], 1)
    /\ \E e \in 1..Len(tet.connectedFaces) : Len(tet.connectedFaces[e][2]) = 2

(***************************************************************************)
(* C5.  For a vertex shared by exactly two non-degenerate faces with unit  *)
(* normals N1, N2 and areas A1, A2, where A1 N1 + A2 N2 is not zero,       *)
(* recalcNormals sets the normal of the vertex to                          *)
(* normalize(A1 N1 + A2 N2).                                               *)
(***************************************************************************)
\* A N of a face, from the buffers recalcNormals wrote
AreaTimesNormal(faceIndex) ==
    [j \in 1..3 |-> NMul(ReadAt(tet.faceAreas, Num(faceIndex), 1, 0),
                         ReadAt(tet.faceNormals, Num(faceIndex), 3, j - 1))]

NonDegenerate(faceIndex) ==
    /\ IsFinite(ReadAt(tet.faceAreas, Num(faceIndex), 1, 0))
    /\ ReadAt(tet.faceAreas, Num(faceIndex), 1, 0) # Zero
    /\ \A j \in 0..2 : IsFinite(ReadAt(tet.faceNormals, Num(faceIndex), 3, j))

WeightedSum(connections) ==
    [j \in 1..3 |-> NAdd(AreaTimesNormal(connections[1])[j], AreaTimesNormal(connections[2])[j])]

C5_AreaWeightedNormal ==
    Resolved =>
        \A e \in 1..Len(tet.connectedFaces) :
            LET v == tet.connectedFaces[e][1]
                connections == tet.connectedFaces[e][2]
            IN (/\ Len(connections) = 2
                /\ IsInteger(v)
                /\ ToInt(v) < Len(tet.vertices) \div 3
                /\ NonDegenerate(connections[1])
                /\ NonDegenerate(connections[2])
                /\ WeightedSum(connections) # <<Zero, Zero, Zero>>)
               => [j \in 1..3 |-> ReadAt(tet.normals, v, 3, j - 1)]
                    = [j \in 1..3 |->
                         NDiv(WeightedSum(connections)[j],
                              Hypot(WeightedSum(connections)[1], WeightedSum(connections)[2],
                                    WeightedSum(connections)[3]))]

(***************************************************************************)
(* C6.  After parsing any input, every corner of every face holds a vertex *)
(* index in 0..vertexCount-1 and a texcoord index in 0..texCoordCount-1,   *)
(* also a corner written without "/t".                                     *)
(***************************************************************************)
IndexIn(x, count) == IsInteger(x) /\ ToInt(x) >= 0 /\ ToInt(x) < count

C6_CornerIndicesInBounds ==
    Resolved =>
        \A f \in 1..Len(tet.faces) : \A c \in 1..Len(tet.faces[f]) :
            /\ IndexIn(tet.faces[f][c][1], Len(tet.vertices) \div 3)
            /\ Len(tet.faces[f][c]) >= 2
            /\ IndexIn(tet.faces[f][c][2], Len(tet.texCoords) \div 2)

(***************************************************************************)
(* C7.  Every 1-based index of the file is stored as its value minus one:  *)
(* the corner "5/2" as [4, 1], the line "t 1 2 3 1" as 0, 1, 2, 0; faces,  *)
(* corners and tetrahedra keep the order of the file.                      *)
(***************************************************************************)
C7_IndicesShiftedByOne ==
    Resolved =>
        /\ Len(tet.faces) = Len(source.faces)
        /\ \A f \in 1..Len(source.faces) :
              /\ Len(tet.faces[f]) = Len(source.faces[f])
              /\ \A c \in 1..Len(source.faces[f]) :
                    /\ Len(tet.faces[f][c]) = Len(source.faces[f][c])
                    /\ \A j \in 1..Len(source.faces[f][c]) :
                          source.faces[f][c][j] >= 0 =>
                              tet.faces[f][c][j] = Num(source.faces[f][c][j] - 1)
        /\ Len(tet.tetsIndices) = 4 * Len(source.tets)
        /\ \A k \in 1..Len(source.tets) : \A j \in 1..4 :
              source.tets[k][j] >= 1 =>
                  tet.tetsIndices[4 * (k - 1) + j] = Num(source.tets[k][j] - 1)

\* a file with the corner "5/2" and the line "t 1 2 3 1", loaded
C7_Witness ==
    /\ Resolved
    /\ source.faces # <<>>
    /\ source.faces[1][1] = <<5, 2>>
    /\ tet.faces[1][1] = <<Num(4), Num(1)>>
    /\ source.tets = << <<1, 2, 3, 1>> >>
    /\ tet.tetsIndices = <<Num(0), Num(1), Num(2), Num(0)>>

(***************************************************************************)
(* C8.  recalcNormals and copyDataToBuffer run while the geometry does not *)
(* exist yet (inside loadTet): the load completes and no attribute is      *)
(* marked.  Every call once the geometry exists marks its attribute        *)
(* changed: normal by recalcNormals, position by copyDataToBuffer, both by *)
(* updateTetModel.                                                         *)
(***************************************************************************)
\* a step that leaves an attribute unmarked is not a call that marks it
C8_SignalsOnceGeometryExists ==
    [][/\ (loadTetExecutor = "awaiting" /\ loadTetExecutor' = "returned") =>
              /\ Resolved'
              /\ tet'.geometry.exists
              /\ ~tet'.geometry.normalNeedsUpdate
              /\ ~tet'.geometry.positionNeedsUpdate
       /\ (tet.geometry.exists /\ ~tet'.geometry.normalNeedsUpdate) =>
              ~CallRecalcNormals /\ ~updateTetModel
       /\ (tet.geometry.exists /\ ~tet'.geometry.positionNeedsUpdate) =>
              ~CallCopyDataToBuffer /\ ~updateTetModel]_vars

\* the mesh is in the scene and both attributes are marked changed
C8_Witness ==
    /\ donutModel
    /\ tet.geometry.exists
    /\ tet.geometry.normalNeedsUpdate
    /\ tet.geometry.positionNeedsUpdate
    /\ ~tet.geometry.uvNeedsUpdate

(***************************************************************************)
(* C9.  After a load, faceNormals has 3 x faceCount entries, faceAreas     *)
(* faceCount and normals 3 x vertexCount; they start as zeros, so the      *)
(* normal of a vertex no face refers to is zero.                           *)
(***************************************************************************)
C9_DerivedBufferLengths ==
    Resolved =>
        /\ Len(tet.faceNormals) = 3 * Len(source.faces)
        /\ Len(tet.faceAreas) = Len(source.faces)
        /\ Len(tet.normals) = 3 * source.nv
        /\ \A k \in 1..Len(tet.normals) :
              (\A e \in 1..Len(tet.connectedFaces) :
                  tet.connectedFaces[e][1] # Num((k - 1) \div 3)) => tet.normals[k] = Zero

(***************************************************************************)
(* C10.  recalcNormals is idempotent: a second call without a write to     *)
(* vertices in between leaves faceNormals, faceAreas, normals and          *)
(* verticesNormals as the first call left them; the result depends on the  *)
(* vertices and the topology only, not on what the buffers held before.    *)
(***************************************************************************)
DerivedBuffers(t) == <<t.faceNormals, t.faceAreas, t.normals, t.verticesNormals>>

\* the TetFile with its derived buffers as loadTet allocated them
Cleared(t) ==
    [t EXCEPT !.faceNormals = Zeros(Len(@)), !.faceAreas = Zeros(Len(@)),
              !.normals = Zeros(Len(@)), !.verticesNormals = Zeros(Len(@))]

C10_RecalcIdempotent ==
    donut =>
        /\ DerivedBuffers(recalcNormals(recalcNormals(tet))) = DerivedBuffers(recalcNormals(tet))
        /\ DerivedBuffers(recalcNormals(tet)) = DerivedBuffers(recalcNormals(Cleared(tet)))

\* recomputed after a write that changed a face normal: the buffers differ
\* from those of the load, and a further call would not change them
C10_Witness ==
    /\ donut
    /\ writes > 0
    /\ tet.geometry.normalNeedsUpdate
    /\ tet.faceNormals # BuildTetFile(parseTetFile(text)).faceNormals
    /\ \E k \in 1..Len(tet.faceAreas) : IsFinite(tet.faceAreas[k]) /\ tet.faceAreas[k] # Zero
    /\ DerivedBuffers(recalcNormals(tet)) = DerivedBuffers(tet)

(***************************************************************************)
(* C11.  Under strict alternation (the simulation writes positions, then   *)
(* updateTetModel runs, then the renderer reads) every renderer read after *)
(* load sees aligned buffers: for every face f and corner k, entry 3f + k  *)
(* of verticesPositions is the current position of vertex v(f, k), of      *)
(* verticesTexCoords is texCoords[t(f, k)], and of verticesNormals is the  *)
(* vertex normal of v(f, k) computed from the current positions.  The      *)
(* load and every updateTetModel establish this, and a read keeps it.      *)
(***************************************************************************)
\* the normal of vertex v from face normals computed from the positions
\* vertices holds now (fresh is the TetFile after such a face loop)
CurrentVertexNormal(fresh, v) == VertexNormal(fresh, v, MapGet(fresh.connectedFaces, v))

AlignedIn(t) ==
    \A fresh \in {FaceLoop(t)} :
    \A f \in 0..(Len(t.faces) - 1) : \A k \in 0..2 :
    \A corner \in {t.faces[f + 1][k + 1]} :
    \A normal \in {CurrentVertexNormal(fresh, corner[1])} :
        /\ \A j \in 0..2 :
              t.verticesPositions[3 * (3 * f + k) + j + 1] = ReadAt(t.vertices, corner[1], 3, j)
        /\ \A j \in 0..1 :
              t.verticesTexCoords[2 * (3 * f + k) + j + 1]
                  = ReadAt(t.texCoords, CornerIndex(corner, 1), 2, j)
        /\ \A j \in 0..2 :
              t.verticesNormals[3 * (3 * f + k) + j + 1]
                  = IF IsInteger(corner[1]) /\ ToInt(corner[1]) * 3 + j < Len(t.normals)
                    THEN normal[j + 1] ELSE NaN

Aligned == AlignedIn(tet)

\* the TetFile a load resolves with and the TetFile updateTetModel leaves are
\* aligned, and a read changes nothing alignment depends on
C11_AlignedAtRead ==
    [][/\ (loadTetExecutor = "awaiting" /\ loadTetExecutor' = "returned") =>
              \A t \in {tet'} : AlignedIn(t)
       /\ updateTetModel => \A t \in {tet'} : AlignedIn(t)
       /\ draw => /\ tet'.vertices = tet.vertices
                  /\ tet'.faces = tet.faces
                  /\ tet'.texCoords = tet.texCoords
                  /\ tet'.connectedFaces = tet.connectedFaces
                  /\ tet'.normals = tet.normals
                  /\ tet'.verticesPositions = tet.verticesPositions
                  /\ tet'.verticesTexCoords = tet.verticesTexCoords
                  /\ tet'.verticesNormals = tet.verticesNormals]_vars

\* the mesh is in the scene, a vertex of two faces was moved, the buffers
\* were brought up to date, and two corners of different faces share a
\* finite normal and a vertex whose texcoord indices differ from it
C11_Witness ==
    /\ donutModel
    /\ writes > 0
    /\ Aligned
    /\ tet.verticesPositions # BuildTetFile(parseTetFile(text)).verticesPositions
    /\ Len(tet.faces) = 2
    /\ \E k1, k2 \in 1..3 :
          /\ tet.faces[1][k1][1] = tet.faces[2][k2][1]
          /\ tet.faces[2][k2][1] # CornerIndex(tet.faces[2][k2], 1)
          /\ IsFinite(tet.verticesNormals[3 * (k1 - 1) + 1])
          /\ \A j \in 1..3 :
                tet.verticesNormals[3 * (k1 - 1) + j] = tet.verticesNormals[3 * (3 + k2 - 1) + j]

(***************************************************************************)
(* C12.  After load, neither recalcNormals nor copyDataToBuffer changes    *)
(* vertices, tetsIndices, faces, connectedFaces or verticesTexCoords;      *)
(* copyDataToBuffer also leaves faceNormals, faceAreas, normals and        *)
(* verticesNormals as they are, and recalcNormals leaves verticesPositions *)
(* as it is.                                                               *)
(***************************************************************************)
\* what neither call owns
Inputs(t) == <<t.vertices, t.tetsIndices, t.faces, t.connectedFaces, t.verticesTexCoords,
               t.texCoords, t.triangleCount>>

\* a step that changes what a call does not own is not that call
C12_TouchesOnlyOwned ==
    [][/\ Inputs(tet') # Inputs(tet) =>
              ~CallRecalcNormals /\ ~CallCopyDataToBuffer /\ ~updateTetModel
       /\ DerivedBuffers(tet') # DerivedBuffers(tet) => ~CallCopyDataToBuffer
       /\ tet'.verticesPositions # tet.verticesPositions => ~CallRecalcNormals]_vars

\* positions were brought up to date without the normals: the per-corner
\* positions follow a write that the normals do not reflect yet
C12_Witness ==
    /\ donut
    /\ writes > 0
    /\ tet.verticesPositions = CopyLoop(tet).verticesPositions
    /\ tet.verticesPositions # BuildTetFile(parseTetFile(text)).verticesPositions
    /\ DerivedBuffers(tet) = DerivedBuffers(BuildTetFile(parseTetFile(text)))
    /\ DerivedBuffers(tet) # DerivedBuffers(recalcNormals(tet))

====
